---- MODULE Spec2Model ----
(***************************************************************************)
(* Transaction lifecycle of tx-latency-bench.                               *)
(*                                                                          *)
(* Two programs share the middleware:                                       *)
(*   - the on-chain snake demo (src/snake/snake.rs): key presses spawn      *)
(*     submission tasks, receipt monitors settle ledger entries, and the    *)
(*     game tick applies confirmed moves;                                   *)
(*   - the latency benchmark (src/main.rs): a sequential loop that submits  *)
(*     num transactions and prints a summary.                               *)
(*                                                                          *)
(* Spec runs one of the two programs, chosen in the initial state; the      *)
(* variables of the other one keep their initial values.  The node's        *)
(* answers (receipts, errors, silence) are the environment's choice.        *)
(* FairSpec adds the scheduling of the tokio runtime, TickSpec the game     *)
(* tick.  LedgerSpec starts the demo late in a session, with a full ledger. *)
(* FeeSpec runs the fee computation of the startup for every baseline.      *)
(* LockSpec runs the demo with the lock requests of its tasks served.       *)
(***************************************************************************)
EXTENDS Integers, Sequences, FiniteSets, Bags, TLC

----------------------------------------------------------------------------
(* Program constants *)

\* snake.rs:312  if *count >= 4
Cap == 4
\* snake.rs:456  if txs.len() > 10
MaxTxs == 10
\* snake.rs:569  for _ in 0..300
MaxAttempts == 300

\* main.rs:187, snake.rs:862  U256::from(1_000_000_000), 1 gwei in wei
Gwei == 1000000000
\* main.rs:189  default_gas_price * 3
BenchMultiplier == 3
\* snake.rs:864  gas_price * 2
DemoMultiplier == 2

(* Bounds of the model *)

\* calls of send_move_transaction (arrow-key presses handled by the main loop)
\* in a run where the node answers RPC calls
MaxPresses == 2
\* calls of send_move_transaction in a run where the node leaves every RPC
\* call unanswered (a burst of key presses while the calls are in flight)
MaxBurst == 5
\* calls of Game::reset
MaxResets == 1
\* single "no receipt yet" answers a monitor gets before the node either
\* answers or withholds the receipt for the rest of the attempt budget
MaxQuickPolls == 1
\* values of args.num explored: 0..MaxNum
MaxNum == 2
\* milliseconds of the benchmark's clock that are told apart
MaxClock == 3
\* moves a session has played before the explored run starts (LedgerSpec)
MaxPlayed == 10

\* values of get_transaction_count at startup (snake.rs:859, main.rs:182)
StartNonces == {7}

Directions == {"Up", "Down", "Left", "Right"}
\* arrow keys pressed in the explored runs
PressedKeys == {"Up", "Left"}

\* receipt.status : Option<U64>
NoStatus == -1
ReceiptStatuses == {0, 1, NoStatus}

NoTask == 0

\* no receipt was returned to the task (yet)
NoReceipt == -2

\* values of get_gas_price at startup, in wei (FeeSpec): zero, values whose
\* multiple stays below, reaches and exceeds 1 gwei
Baselines == {0, 1, 2, 333333333, 333333334, 499999999, 500000000,
              500000001, 600000000, 715827882}
\* the value of get_gas_price in the runs of Spec and LedgerSpec
SessionBaselines == {0}
\* a fee that was not computed yet
NoFee == -1

VARIABLES
    program,              \* which binary runs: "demo" (snake.rs) or "bench" (main.rs)
    method,               \* blockchain_context.method / the benchmark's method
    rpc_responsive,       \* environment: the node answers RPC calls in this run
    starting_nonce,       \* get_transaction_count at startup
    played,               \* moves of the session that were submitted and
                          \* settled before the explored run starts
    default_gas_price,    \* get_gas_price at startup
    gas_price,            \* gas_price of main / blockchain_context.gas_price
    max_fee_per_gas,      \* of the EIP-1559 requests the run builds
    max_priority_fee_per_gas,
    nonce,                \* *blockchain_context.nonce
    nonce_holder,         \* task holding the tokio nonce mutex, or NoTask
    pending_moves_count,  \* *game.pending_moves_count
    transactions,         \* *game.transactions
    txs_locked,           \* the reset task holds the transactions mutex
    snake_direction,      \* game.snake.direction
    game_over,            \* game.game_over
    moves,                \* times Snake::move_forward advanced the snake
                          \* since Snake::new, modulo 2
    main_pc,              \* position of the main loop inside Game::update
    direction_to_apply,   \* local of Game::update
    nonce_to_mark,        \* local tx_nonce_to_mark of Game::update
    queued,               \* spawned send_move_transaction_static tasks that
                          \* have not acquired the nonce mutex yet (by direction)
    tasks,                \* submissions that acquired the nonce mutex
    reset_tasks,          \* spawned reset tasks: "spawned" | "clearing"
    \* ---- demo: history ----
    presses,              \* calls of send_move_transaction
    resets,               \* calls of Game::reset
    issued,               \* nonces handed out, in order
    inserted,             \* nonces pushed to the ledger, in order
    applied_order,        \* nonces marked applied by Game::update, in order
    \* ---- benchmark: locals of main ----
    num_transactions,     \* args.num
    b_i,                  \* loop index i
    b_pc,                 \* position of main
    results,              \* results: (hash, send_time, confirm_time, total_time)
    clock,                \* Instant::now(), in ms since batch_start_time
    tx_start,             \* tx_start
    send_start,           \* send_start
    confirm_start,        \* confirm_start
    send_time,            \* send_time / send_duration
    summary,              \* the printed LATENCY STATISTICS, "none" if not printed
    batch_elapsed         \* batch_elapsed, -1 before it is taken

fee_vars == <<default_gas_price, gas_price, max_fee_per_gas,
              max_priority_fee_per_gas>>

config_vars == <<program, method, rpc_responsive, starting_nonce, played,
                 fee_vars>>

demo_vars == <<nonce, nonce_holder, pending_moves_count, transactions,
               txs_locked, snake_direction, game_over, moves, main_pc,
               direction_to_apply, nonce_to_mark, queued, tasks, reset_tasks,
               presses, resets, inserted, applied_order>>

bench_vars == <<num_transactions, b_i, b_pc, results, clock, tx_start,
                send_start, confirm_start, send_time, summary, batch_elapsed>>

vars == <<config_vars, demo_vars, bench_vars, issued>>

----------------------------------------------------------------------------
(* Pure helpers *)

\* Direction::opposite
opposite(d) ==
    CASE d = "Up" -> "Down"
      [] d = "Down" -> "Up"
      [] d = "Left" -> "Right"
      [] d = "Right" -> "Left"

\* Snake::change_direction
ChangeDirectionAlways(cur, new_direction) == new_direction
change_direction(cur, new_direction) ==
    IF new_direction # opposite(cur) THEN new_direction ELSE cur

\* main.rs:183-190, snake.rs:860-865: the gas price used for the whole run
GasPriceSameMultiplier(prog, default) ==
    IF default = 0 THEN Gwei ELSE default * BenchMultiplier
GasPrice(prog, default) ==
    IF default = 0 THEN Gwei
    ELSE IF prog = "bench" THEN default * BenchMultiplier
    ELSE default * DemoMultiplier

\* main.rs:243, snake.rs:364: let max_priority_fee_per_gas = 1 gwei
MaxPriorityFeePerGas == Gwei

\* main.rs:246-251, snake.rs:365-369
MaxFeePerGasUnfloored(price) == price
MaxFeePerGas(price) ==
    IF price > MaxPriorityFeePerGas THEN price ELSE MaxPriorityFeePerGas * 2

\* Snake::move_forward: the snake advances by one cell unless the head would
\* leave the board or run into the body (None)
move_forward(m, collides) == IF collides THEN m ELSE (m + 1) % 2

\* the game loop calls Game::update only if !game.game_over (line 944), and
\* Game::update returns at once if self.game_over (lines 246-248)
TickIgnoresGameOver(over) == TRUE
TickDue(over) == ~over

\* the methods that send EIP-1559 requests
FeeMarket(m) == m \in {"Rise", "Mega"}

\* if receipt.status == Some(1.into()) { Confirmed } else { Failed }
ClassifyNonZero(status) == IF status # 0 THEN "Confirmed" ELSE "Failed"
Classify(status) == IF status = 1 THEN "Confirmed" ELSE "Failed"

\* if *count > 0 { *count -= 1; }
DecrementUnguarded(count) == count - 1
Decrement(count) == IF count > 0 THEN count - 1 ELSE count

\* the guard of send_move_transaction: if *count >= 4 { return; }
AtCapOffByOne(count) == count > Cap
AtCap(count) == count >= Cap

\* tokio Mutex: lock().await completes only when no task holds the guard
NonceLockIgnored(holder) == TRUE
NonceLockFree(holder) == holder = NoTask

\* the guard `nonce` is dropped when send_move_transaction_static returns
KeepNonceLock(holder, t) == holder
DropNonceLock(holder, t) == IF holder = t THEN NoTask ELSE holder

\* the guards `txs` and `count` of the reset task are dropped when its
\* closure ends
KeepLedgerLock(locked) == locked
DropLedgerLock(locked) == FALSE

\* *nonce += 1
NextNonceStuck(n) == n
NextNonce(n) == n + 1

\* for _ in 0..300 : another iteration is made iff fewer than 300 were
PollBudgetLeftInclusive(attempts) == attempts <= MaxAttempts
PollBudgetLeft(attempts) == attempts < MaxAttempts

\* txs.push(tx_info); if txs.len() > 10 { txs.remove(0); }
PushDropNewest(txs, e) ==
    LET l == Append(txs, e) IN
    IF Len(l) > MaxTxs THEN SubSeq(l, 1, MaxTxs) ELSE l
Push(txs, e) ==
    LET l == Append(txs, e) IN
    IF Len(l) > MaxTxs THEN Tail(l) ELSE l

\* index of the first entry with tx.nonce == n, 0 when there is none
\* (for tx in txs.iter_mut() { if tx.nonce == nonce { ...; break; } })
FirstWithNonce(txs, n) ==
    IF \E i \in 1..Len(txs) : txs[i].nonce = n
    THEN CHOOSE i \in 1..Len(txs) :
            /\ txs[i].nonce = n
            /\ \A j \in 1..(i - 1) : txs[j].nonce # n
    ELSE 0

\* the status update of monitor_transaction_receipt, by nonce
SetStatusOrFirst(txs, n, s) ==
    LET i == FirstWithNonce(txs, n) IN
    IF txs = <<>> THEN txs
    ELSE IF i = 0 THEN [txs EXCEPT ![1].status = s]
    ELSE [txs EXCEPT ![i].status = s]
SetStatusEvery(txs, n, s) ==
    [i \in 1..Len(txs) |-> [txs[i] EXCEPT !.status = s]]
SetStatus(txs, n, s) ==
    LET i == FirstWithNonce(txs, n) IN
    IF i = 0 THEN txs ELSE [txs EXCEPT ![i].status = s]

\* first entry that is Confirmed, tagged and not applied (Game::update scan)
FirstApplicableAnyStatus(txs) ==
    LET ok(i) == txs[i].direction \in Directions /\ ~txs[i].applied
    IN IF \E i \in 1..Len(txs) : ok(i)
       THEN CHOOSE i \in 1..Len(txs) : ok(i) /\ \A j \in 1..(i - 1) : ~ok(j)
       ELSE 0
FirstApplicable(txs) ==
    LET ok(i) == /\ txs[i].status = "Confirmed"
                 /\ txs[i].direction \in Directions
                 /\ ~txs[i].applied
    IN IF \E i \in 1..Len(txs) : ok(i)
       THEN CHOOSE i \in 1..Len(txs) : ok(i) /\ \A j \in 1..(i - 1) : ~ok(j)
       ELSE 0

\* mark the first entry with that nonce applied (Game::update, second loop)
MarkApplied(txs, n) ==
    LET i == FirstWithNonce(txs, n) IN
    IF i = 0 THEN txs ELSE [txs EXCEPT ![i].applied = TRUE]

TaskIds == 1..Len(tasks)

\* key presses explored in this run
PressLimit == played + (IF rpc_responsive THEN MaxPresses ELSE MaxBurst)

\* the loop over the ledger finds no entry with the nonce of submission t
\* (history: recorded when the monitor of t makes its status update)
Missing(t) == FirstWithNonce(transactions, tasks[t].current_nonce) = 0

\* the submission that was handed nonce n (history lookup), NoTask if none
TaskOfNonce(n) ==
    IF \E t \in TaskIds : tasks[t].current_nonce = n
    THEN CHOOSE t \in TaskIds : tasks[t].current_nonce = n
    ELSE NoTask

----------------------------------------------------------------------------
(* Demo: initial state (Game::new, snake.rs main) *)

DemoInit ==
    /\ nonce = starting_nonce
    /\ nonce_holder = NoTask
    /\ pending_moves_count = 0
    /\ transactions = <<>>
    /\ txs_locked = FALSE
    /\ snake_direction = "Right"
    /\ game_over = FALSE
    /\ moves = 0
    /\ main_pc = "loop"
    /\ direction_to_apply = "None"
    /\ nonce_to_mark = -1
    /\ queued = EmptyBag
    /\ tasks = <<>>
    /\ reset_tasks = <<>>
    /\ presses = 0
    /\ resets = 0
    /\ inserted = <<>>
    /\ applied_order = <<>>

----------------------------------------------------------------------------
(* Demo: main thread *)

\* Game::send_move_transaction, called from the key handler when !game_over
send_move_transaction(direction) ==
    /\ program = "demo"
    /\ main_pc = "loop"
    /\ ~game_over
    /\ presses < PressLimit
    /\ presses' = presses + 1
    /\ IF AtCap(pending_moves_count)
       THEN UNCHANGED queued
       ELSE queued' = queued (+) SetToBag({direction})
    /\ UNCHANGED <<config_vars, bench_vars, nonce, nonce_holder,
                   pending_moves_count, transactions, txs_locked,
                   snake_direction, game_over,
                   moves, main_pc, direction_to_apply,
                   nonce_to_mark, tasks, reset_tasks, resets, issued, inserted,
                   applied_order>>

\* Game::update, lines 245-275 (and 288-302 when nothing is applied):
\* the section under the transactions mutex
update_scan(collides) ==
    /\ program = "demo"
    /\ main_pc = "loop"
    /\ TickDue(game_over)
    /\ ~txs_locked
    /\ LET i == FirstApplicable(transactions) IN
       IF i # 0
       THEN /\ direction_to_apply' = transactions[i].direction
            /\ nonce_to_mark' = transactions[i].nonce
            /\ transactions' = MarkApplied(transactions, transactions[i].nonce)
            /\ applied_order' = Append(applied_order, transactions[i].nonce)
            /\ main_pc' = "apply"
            /\ UNCHANGED <<game_over, moves>>
       ELSE /\ game_over' = collides
            /\ moves' = move_forward(moves, collides)
            /\ UNCHANGED <<direction_to_apply, nonce_to_mark, transactions,
                           applied_order, main_pc>>
    /\ UNCHANGED <<config_vars, bench_vars, nonce, nonce_holder,
                   pending_moves_count, txs_locked, snake_direction, queued,
                   tasks, reset_tasks, presses, resets, issued, inserted>>

\* Game::update, lines 277-302: change direction, release the slot, move
update_apply(collides) ==
    /\ program = "demo"
    /\ main_pc = "apply"
    /\ snake_direction' = change_direction(snake_direction, direction_to_apply)
    /\ pending_moves_count' = Decrement(pending_moves_count)
    /\ LET t == TaskOfNonce(nonce_to_mark) IN
       tasks' = IF t = NoTask THEN tasks
                ELSE [tasks EXCEPT ![t].decs = @ + 1, ![t].applied = TRUE]
    /\ game_over' = collides
    /\ moves' = move_forward(moves, collides)
    /\ main_pc' = "loop"
    /\ direction_to_apply' = "None"
    /\ nonce_to_mark' = -1
    /\ UNCHANGED <<config_vars, bench_vars, nonce, nonce_holder, transactions,
                   txs_locked, queued, reset_tasks, presses, resets, issued,
                   inserted, applied_order>>

\* Game::reset, lines 788-797: the synchronous part, then a task is spawned
reset ==
    /\ program = "demo"
    /\ main_pc = "loop"
    /\ resets < MaxResets
    /\ resets' = resets + 1
    /\ snake_direction' = "Right"
    /\ game_over' = FALSE
    /\ moves' = 0
    /\ reset_tasks' = Append(reset_tasks, "spawned")
    /\ UNCHANGED <<config_vars, bench_vars, nonce, nonce_holder,
                   pending_moves_count, transactions, txs_locked, main_pc,
                   direction_to_apply, nonce_to_mark, queued, tasks, presses,
                   issued, inserted, applied_order>>

----------------------------------------------------------------------------
(* Demo: spawned tasks *)

\* the task spawned by Game::reset, line 798-799: lock transactions, clear
reset_clear(r) ==
    /\ program = "demo"
    /\ r \in 1..Len(reset_tasks)
    /\ reset_tasks[r] = "spawned"
    /\ ~txs_locked
    /\ txs_locked' = TRUE
    /\ transactions' = <<>>
    /\ reset_tasks' = [reset_tasks EXCEPT ![r] = "clearing"]
    /\ UNCHANGED <<config_vars, bench_vars, nonce, nonce_holder,
                   pending_moves_count, snake_direction, game_over,
                   moves, main_pc,
                   direction_to_apply, nonce_to_mark, queued, tasks, presses,
                   resets, issued, inserted, applied_order>>

\* lines 800-802: lock the counter, zero it, drop both guards
reset_zero(r) ==
    /\ program = "demo"
    /\ r \in 1..Len(reset_tasks)
    /\ reset_tasks[r] = "clearing"
    /\ pending_moves_count' = 0
    /\ txs_locked' = DropLedgerLock(txs_locked)
    /\ reset_tasks' = [reset_tasks EXCEPT ![r] = "done"]
    /\ UNCHANGED <<config_vars, bench_vars, nonce, nonce_holder, transactions,
                   snake_direction, game_over,
                   moves, main_pc, direction_to_apply,
                   nonce_to_mark, queued, tasks, presses, resets, issued,
                   inserted, applied_order>>

\* send_move_transaction_static, lines 346-359: take the nonce mutex, read
\* the nonce, take a slot
static_begin(direction) ==
    /\ program = "demo"
    /\ BagIn(direction, queued)
    /\ NonceLockFree(nonce_holder)
    /\ queued' = queued (-) SetToBag({direction})
    /\ tasks' = Append(tasks, [pc |-> "holding",
                               current_nonce |-> nonce,
                               direction |-> direction,
                               attempts |-> 0,
                               outcome |-> "none",
                               incs |-> 1,
                               decs |-> 0,
                               applied |-> FALSE,
                               missed |-> FALSE,
                               submits |-> 0,
                               receipt |-> NoReceipt])
    /\ nonce_holder' = Len(tasks) + 1
    /\ pending_moves_count' = pending_moves_count + 1
    /\ issued' = Append(issued, nonce)
    /\ UNCHANGED <<config_vars, bench_vars, nonce, transactions, txs_locked,
                   snake_direction, game_over,
                   moves, main_pc, direction_to_apply,
                   nonce_to_mark, reset_tasks, presses, resets, inserted,
                   applied_order>>

\* send_move_transaction_static, lines 361-487: spawn the sending task,
\* advance the nonce, drop the guard
static_end(t) ==
    /\ program = "demo"
    /\ t \in TaskIds
    /\ tasks[t].pc = "holding"
    /\ tasks' = [tasks EXCEPT ![t].pc = "sending"]
    /\ nonce' = NextNonce(nonce)
    /\ nonce_holder' = DropNonceLock(nonce_holder, t)
    /\ UNCHANGED <<config_vars, bench_vars, pending_moves_count, transactions,
                   txs_locked, snake_direction, game_over, moves, main_pc,
                   direction_to_apply, nonce_to_mark, queued, reset_tasks,
                   presses, resets, issued, inserted, applied_order>>

EntrySameNonce(t, status) ==
    [nonce |-> starting_nonce,
     status |-> status,
     direction |-> tasks[t].direction,
     applied |-> FALSE]
EntryAlwaysFailed(t, status) ==
    [nonce |-> tasks[t].current_nonce,
     status |-> "Failed",
     direction |-> tasks[t].direction,
     applied |-> FALSE]
EntryAlwaysPending(t, status) ==
    [nonce |-> tasks[t].current_nonce,
     status |-> "Pending",
     direction |-> tasks[t].direction,
     applied |-> FALSE]
Entry(t, status) ==
    [nonce |-> tasks[t].current_nonce,
     status |-> status,
     direction |-> tasks[t].direction,
     applied |-> FALSE]

\* the task spawned at line 436, Ok arm: record Pending, start the monitor
async_send_ok(t) ==
    /\ program = "demo"
    /\ rpc_responsive
    /\ method = "Async"
    /\ t \in TaskIds
    /\ tasks[t].pc = "sending"
    /\ ~txs_locked
    /\ transactions' = Push(transactions, Entry(t, "Pending"))
    /\ inserted' = Append(inserted, tasks[t].current_nonce)
    /\ tasks' = [tasks EXCEPT ![t].pc = "polling", ![t].submits = @ + 1]
    /\ UNCHANGED <<config_vars, bench_vars, nonce, nonce_holder,
                   pending_moves_count, txs_locked, snake_direction, game_over,
                   moves,
                   main_pc, direction_to_apply, nonce_to_mark, queued,
                   reset_tasks, presses, resets, issued, applied_order>>

\* the task spawned at line 436, Err arm: release the slot
async_send_err(t) ==
    /\ program = "demo"
    /\ rpc_responsive
    /\ method = "Async"
    /\ t \in TaskIds
    /\ tasks[t].pc = "sending"
    /\ pending_moves_count' = Decrement(pending_moves_count)
    /\ tasks' = [tasks EXCEPT ![t].pc = "done", ![t].outcome = "send_error",
                              ![t].decs = @ + 1, ![t].submits = @ + 1]
    /\ UNCHANGED <<config_vars, bench_vars, nonce, nonce_holder, transactions,
                   txs_locked, snake_direction, game_over, moves, main_pc,
                   direction_to_apply, nonce_to_mark, queued, reset_tasks,
                   presses, resets, issued, inserted, applied_order>>

\* send_rise_transaction, line 501: sign_transaction(&tx).await? fails
RiseSignErrRollsBack(t) ==
    /\ program = "demo"
    /\ method = "Rise"
    /\ t \in TaskIds
    /\ tasks[t].pc = "sending"
    /\ tasks' = [tasks EXCEPT ![t].pc = "done", ![t].outcome = "sign_error"]
    /\ nonce' = nonce - 1
    /\ UNCHANGED <<config_vars, bench_vars, nonce_holder,
                   pending_moves_count, transactions, txs_locked,
                   snake_direction, game_over, moves, main_pc,
                   direction_to_apply, nonce_to_mark, queued, reset_tasks,
                   presses, resets, issued, inserted, applied_order>>
rise_sign_err(t) ==
    /\ program = "demo"
    /\ method = "Rise"
    /\ t \in TaskIds
    /\ tasks[t].pc = "sending"
    /\ tasks' = [tasks EXCEPT ![t].pc = "done", ![t].outcome = "sign_error"]
    /\ UNCHANGED <<config_vars, bench_vars, nonce, nonce_holder,
                   pending_moves_count, transactions, txs_locked,
                   snake_direction, game_over,
                   moves, main_pc, direction_to_apply,
                   nonce_to_mark, queued, reset_tasks, presses, resets, issued,
                   inserted, applied_order>>

\* send_rise_transaction, lines 546-554: send_raw_transaction_sync fails
rise_send_err(t) ==
    /\ program = "demo"
    /\ rpc_responsive
    /\ method = "Rise"
    /\ t \in TaskIds
    /\ tasks[t].pc = "sending"
    /\ pending_moves_count' = Decrement(pending_moves_count)
    /\ tasks' = [tasks EXCEPT ![t].pc = "done", ![t].outcome = "send_error",
                              ![t].decs = @ + 1, ![t].submits = @ + 1]
    /\ UNCHANGED <<config_vars, bench_vars, nonce, nonce_holder, transactions,
                   txs_locked, snake_direction, game_over, moves, main_pc,
                   direction_to_apply, nonce_to_mark, queued, reset_tasks,
                   presses, resets, issued, inserted, applied_order>>

\* send_rise_transaction, lines 506-532: the receipt came back, record it
rise_receipt(t, status) ==
    /\ program = "demo"
    /\ rpc_responsive
    /\ method = "Rise"
    /\ t \in TaskIds
    /\ tasks[t].pc = "sending"
    /\ ~txs_locked
    /\ transactions' = Push(transactions, Entry(t, Classify(status)))
    /\ inserted' = Append(inserted, tasks[t].current_nonce)
    /\ tasks' = IF Classify(status) = "Failed"
                THEN [tasks EXCEPT ![t].pc = "releasing",
                                   ![t].outcome = "failed",
                                   ![t].submits = @ + 1,
                                   ![t].receipt = status]
                ELSE [tasks EXCEPT ![t].pc = "done",
                                   ![t].outcome = "confirmed",
                                   ![t].submits = @ + 1,
                                   ![t].receipt = status]
    /\ UNCHANGED <<config_vars, bench_vars, nonce, nonce_holder,
                   pending_moves_count, txs_locked, snake_direction, game_over,
                   moves,
                   main_pc, direction_to_apply, nonce_to_mark, queued,
                   reset_tasks, presses, resets, issued, applied_order>>

\* monitor_transaction_receipt, lines 603-605: k consecutive iterations that
\* each get Ok(None) and sleep.  They touch no shared state, so a run of them
\* is taken in one step: one at a time for the first MaxQuickPolls, or all
\* that are left of the attempt budget.
monitor_no_receipt(t, k) ==
    /\ program = "demo"
    /\ rpc_responsive
    /\ method = "Async"
    /\ t \in TaskIds
    /\ tasks[t].pc = "polling"
    /\ k >= 1
    /\ PollBudgetLeft(tasks[t].attempts + k - 1)
    /\ \/ k = 1 /\ tasks[t].attempts < MaxQuickPolls
       \/ ~PollBudgetLeft(tasks[t].attempts + k)
    /\ tasks' = [tasks EXCEPT ![t].attempts = @ + k]
    /\ UNCHANGED <<config_vars, bench_vars, nonce, nonce_holder,
                   pending_moves_count, transactions, txs_locked,
                   snake_direction, game_over,
                   moves, main_pc, direction_to_apply,
                   nonce_to_mark, queued, reset_tasks, presses, resets, issued,
                   inserted, applied_order>>

\* monitor_transaction_receipt, lines 571-590: Ok(Some(receipt)), settle the
\* entry under the transactions mutex
monitor_receipt(t, status) ==
    /\ program = "demo"
    /\ rpc_responsive
    /\ method = "Async"
    /\ t \in TaskIds
    /\ tasks[t].pc = "polling"
    /\ PollBudgetLeft(tasks[t].attempts)
    /\ ~txs_locked
    /\ transactions' = SetStatus(transactions, tasks[t].current_nonce,
                                 Classify(status))
    /\ tasks' = IF Classify(status) = "Failed"
                THEN [tasks EXCEPT ![t].pc = "releasing",
                                   ![t].attempts = @ + 1,
                                   ![t].outcome = "failed",
                                   ![t].missed = Missing(t),
                                   ![t].receipt = status]
                ELSE [tasks EXCEPT ![t].pc = "done",
                                   ![t].attempts = @ + 1,
                                   ![t].outcome = "confirmed",
                                   ![t].missed = Missing(t),
                                   ![t].receipt = status]
    /\ UNCHANGED <<config_vars, bench_vars, nonce, nonce_holder,
                   pending_moves_count, txs_locked, snake_direction, game_over,
                   moves,
                   main_pc, direction_to_apply, nonce_to_mark, queued,
                   reset_tasks, presses, resets, issued, inserted,
                   applied_order>>

\* monitor_transaction_receipt, lines 606-615: Err(e), release the slot, return
monitor_error(t) ==
    /\ program = "demo"
    /\ rpc_responsive
    /\ method = "Async"
    /\ t \in TaskIds
    /\ tasks[t].pc = "polling"
    /\ PollBudgetLeft(tasks[t].attempts)
    /\ pending_moves_count' = Decrement(pending_moves_count)
    /\ tasks' = [tasks EXCEPT ![t].pc = "done",
                              ![t].attempts = @ + 1,
                              ![t].outcome = "receipt_error",
                              ![t].decs = @ + 1]
    /\ UNCHANGED <<config_vars, bench_vars, nonce, nonce_holder, transactions,
                   txs_locked, snake_direction, game_over, moves, main_pc,
                   direction_to_apply, nonce_to_mark, queued, reset_tasks,
                   presses, resets, issued, inserted, applied_order>>

\* monitor_transaction_receipt, lines 619-629: the loop ran out, mark Failed
monitor_timeout(t) ==
    /\ program = "demo"
    /\ method = "Async"
    /\ t \in TaskIds
    /\ tasks[t].pc = "polling"
    /\ ~PollBudgetLeft(tasks[t].attempts)
    /\ ~txs_locked
    /\ transactions' = SetStatus(transactions, tasks[t].current_nonce, "Failed")
    /\ tasks' = [tasks EXCEPT ![t].pc = "releasing", ![t].outcome = "timeout",
                              ![t].missed = Missing(t)]
    /\ UNCHANGED <<config_vars, bench_vars, nonce, nonce_holder,
                   pending_moves_count, txs_locked, snake_direction, game_over,
                   moves,
                   main_pc, direction_to_apply, nonce_to_mark, queued,
                   reset_tasks, presses, resets, issued, inserted,
                   applied_order>>

\* the decrement that follows a Failed receipt (lines 538-544, 593-599) or
\* the timeout (lines 631-635)
release_slot(t) ==
    /\ program = "demo"
    /\ t \in TaskIds
    /\ tasks[t].pc = "releasing"
    /\ pending_moves_count' = Decrement(pending_moves_count)
    /\ tasks' = [tasks EXCEPT ![t].pc = "done", ![t].decs = @ + 1]
    /\ UNCHANGED <<config_vars, bench_vars, nonce, nonce_holder, transactions,
                   txs_locked, snake_direction, game_over, moves, main_pc,
                   direction_to_apply, nonce_to_mark, queued, reset_tasks,
                   presses, resets, issued, inserted, applied_order>>

\* lengths of the runs of Ok(None) answers explored for monitor t: a single
\* one, or as many as the loop still has iterations
NoReceiptRuns(t) == {1, MaxAttempts - tasks[t].attempts,
                     MaxAttempts + 1 - tasks[t].attempts}

----------------------------------------------------------------------------
(* Benchmark: main of src/main.rs *)

BenchInit ==
    /\ b_i = 0
    /\ b_pc = "loop"
    /\ results = <<>>
    /\ clock = 0
    /\ tx_start = 0
    /\ send_start = 0
    /\ confirm_start = 0
    /\ send_time = 0
    /\ summary = "none"
    /\ batch_elapsed = -1

RECURSIVE SeqSum(_)
SeqSum(xs) == IF xs = <<>> THEN 0 ELSE Head(xs) + SeqSum(Tail(xs))

\* iter().min().unwrap_or(&0), iter().max().unwrap_or(&0)
SeqMin(xs) ==
    IF xs = <<>> THEN 0
    ELSE CHOOSE m \in {xs[i] : i \in 1..Len(xs)} :
            \A i \in 1..Len(xs) : m <= xs[i]
SeqMax(xs) ==
    IF xs = <<>> THEN 0
    ELSE CHOOSE m \in {xs[i] : i \in 1..Len(xs)} :
            \A i \in 1..Len(xs) : m >= xs[i]

\* iter().sum::<u128>() / len() as u128
SeqAvgRoundedUp(xs) == (SeqSum(xs) + Len(xs) - 1) \div Len(xs)
SeqAvg(xs) == SeqSum(xs) \div Len(xs)

Stats(xs) == [min |-> SeqMin(xs), max |-> SeqMax(xs), avg |-> SeqAvg(xs)]

\* main.rs lines 352-382: the statistics, printed only for non-empty results
Summarize(rs) ==
    IF rs = <<>> THEN "none"
    ELSE [count |-> Len(rs),
          send |-> Stats([i \in 1..Len(rs) |-> rs[i].send_time]),
          confirm |-> Stats([i \in 1..Len(rs) |-> rs[i].confirm_time]),
          total |-> Stats([i \in 1..Len(rs) |-> rs[i].total_time])]

\* time passes between two statements of main, or while it awaits
time_passes ==
    /\ program = "bench"
    /\ b_pc \notin {"done", "aborted"}
    /\ clock < MaxClock
    /\ clock' = clock + 1
    /\ UNCHANGED <<config_vars, demo_vars, issued, num_transactions, b_i, b_pc,
                   results, tx_start, send_start, confirm_start, send_time,
                   summary, batch_elapsed>>

\* lines 211-217: next iteration, nonce = starting_nonce + i, tx_start
bench_iteration ==
    /\ program = "bench"
    /\ b_pc = "loop"
    /\ b_i < num_transactions
    /\ issued' = Append(issued, starting_nonce + b_i)
    /\ tx_start' = clock
    /\ b_pc' = "started"
    /\ UNCHANGED <<config_vars, demo_vars, num_transactions, b_i, results,
                   clock, send_start, confirm_start, send_time, summary,
                   batch_elapsed>>

\* line 82 (Async) or line 268 (Rise, Mega): send_start, then the first await
bench_send_start ==
    /\ program = "bench"
    /\ b_pc = "started"
    /\ send_start' = clock
    /\ b_pc' = IF method = "Async" THEN "sending" ELSE "signing"
    /\ UNCHANGED <<config_vars, demo_vars, issued, num_transactions, b_i,
                   results, clock, tx_start, confirm_start, send_time, summary,
                   batch_elapsed>>

\* the iteration ends without a result: line 230-232
SkipIterationAndRetry ==
    /\ b_pc' = "loop"
    /\ UNCHANGED <<config_vars, demo_vars, issued, num_transactions, b_i,
                   results, clock, tx_start, send_start, confirm_start,
                   send_time, summary, batch_elapsed>>
SkipIteration ==
    /\ b_i' = b_i + 1
    /\ b_pc' = "loop"
    /\ UNCHANGED <<config_vars, demo_vars, issued, num_transactions, results,
                   clock, tx_start, send_start, confirm_start, send_time,
                   summary, batch_elapsed>>

\* the `?` of main, lines 271, 285, 292: main returns the error
AbortMain ==
    /\ b_pc' = "aborted"
    /\ UNCHANGED <<config_vars, demo_vars, issued, num_transactions, b_i,
                   results, clock, tx_start, send_start, confirm_start,
                   send_time, summary, batch_elapsed>>

\* send_and_confirm_transaction, lines 85-93: send_transaction answered Ok
bench_send_ok ==
    /\ program = "bench"
    /\ b_pc = "sending"
    /\ send_time' = clock - send_start
    /\ confirm_start' = clock
    /\ b_pc' = "polling"
    /\ UNCHANGED <<config_vars, demo_vars, issued, num_transactions, b_i,
                   results, clock, tx_start, send_start, summary, batch_elapsed>>

\* line 85: send_transaction(...).await? fails; main's Err arm, line 230
bench_send_err ==
    /\ program = "bench"
    /\ b_pc = "sending"
    /\ SkipIteration

\* lines 99-100, 119-122: get_transaction_receipt answered Ok(None), sleep
bench_poll_none ==
    /\ program = "bench"
    /\ b_pc = "polling"
    /\ b_pc' = "sleeping"
    /\ UNCHANGED <<config_vars, demo_vars, issued, num_transactions, b_i,
                   results, clock, tx_start, send_start, confirm_start,
                   send_time, summary, batch_elapsed>>

\* line 121: the sleep is over, back to the head of the while loop
bench_wake ==
    /\ program = "bench"
    /\ b_pc = "sleeping"
    /\ b_pc' = "polling"
    /\ UNCHANGED <<config_vars, demo_vars, issued, num_transactions, b_i,
                   results, clock, tx_start, send_start, confirm_start,
                   send_time, summary, batch_elapsed>>

\* line 100: get_transaction_receipt(...).await? fails; main's Err arm
bench_poll_err ==
    /\ program = "bench"
    /\ b_pc = "polling"
    /\ SkipIteration

\* lines 101-137 and 223-228: a receipt (whatever its status) ends the loop
bench_poll_receipt(status) ==
    /\ program = "bench"
    /\ b_pc = "polling"
    /\ results' = Append(results, [hash |-> starting_nonce + b_i,
                                   send_time |-> send_time,
                                   confirm_time |-> clock - confirm_start,
                                   total_time |-> clock - tx_start])
    /\ b_i' = b_i + 1
    /\ b_pc' = "loop"
    /\ UNCHANGED <<config_vars, demo_vars, issued, num_transactions, clock,
                   tx_start, send_start, confirm_start, send_time, summary,
                   batch_elapsed>>

\* line 271: sign_transaction(&tx).await? succeeded
bench_sign_ok ==
    /\ program = "bench"
    /\ b_pc = "signing"
    /\ b_pc' = "sync_send"
    /\ UNCHANGED <<config_vars, demo_vars, issued, num_transactions, b_i,
                   results, clock, tx_start, send_start, confirm_start,
                   send_time, summary, batch_elapsed>>

\* line 271: sign_transaction(&tx).await? failed
bench_sign_err ==
    /\ program = "bench"
    /\ b_pc = "signing"
    /\ AbortMain

\* lines 285-287, 292-294: the synchronous RPC returned a receipt
bench_sync_receipt(status) ==
    /\ program = "bench"
    /\ b_pc = "sync_send"
    /\ send_time' = clock - send_start
    /\ b_pc' = "record"
    /\ UNCHANGED <<config_vars, demo_vars, issued, num_transactions, b_i,
                   results, clock, tx_start, send_start, confirm_start,
                   summary, batch_elapsed>>

\* lines 285, 292: send_raw_transaction_sync / _realtime (...).await? failed
bench_sync_err ==
    /\ program = "bench"
    /\ b_pc = "sync_send"
    /\ AbortMain

\* lines 299-324: total_time, confirm_time = Duration::default(), push
bench_record ==
    /\ program = "bench"
    /\ b_pc = "record"
    /\ results' = Append(results, [hash |-> starting_nonce + b_i,
                                   send_time |-> send_time,
                                   confirm_time |-> 0,
                                   total_time |-> clock - tx_start])
    /\ b_i' = b_i + 1
    /\ b_pc' = "loop"
    /\ UNCHANGED <<config_vars, demo_vars, issued, num_transactions, clock,
                   tx_start, send_start, confirm_start, send_time, summary,
                   batch_elapsed>>

\* lines 331-384: the loop is over, batch_elapsed, the summary, Ok(())
bench_summary ==
    /\ program = "bench"
    /\ b_pc = "loop"
    /\ b_i >= num_transactions
    /\ batch_elapsed' = clock
    /\ summary' = Summarize(results)
    /\ b_pc' = "done"
    /\ UNCHANGED <<config_vars, demo_vars, issued, num_transactions, b_i,
                   results, clock, tx_start, send_start, confirm_start,
                   send_time>>

----------------------------------------------------------------------------
(* Both programs *)

Init ==
    /\ program \in {"demo", "bench"}
    /\ method \in IF program = "demo" THEN {"Async", "Rise"}
                  ELSE {"Async", "Rise", "Mega"}
    /\ rpc_responsive \in IF program = "demo" THEN BOOLEAN ELSE {TRUE}
    /\ starting_nonce \in StartNonces
    /\ played = 0
    /\ default_gas_price \in SessionBaselines
    /\ gas_price = GasPrice(program, default_gas_price)
    /\ max_priority_fee_per_gas =
          IF FeeMarket(method) THEN MaxPriorityFeePerGas ELSE NoFee
    /\ max_fee_per_gas =
          IF FeeMarket(method) THEN MaxFeePerGas(gas_price) ELSE NoFee
    /\ num_transactions \in IF program = "demo" THEN {0} ELSE 0..MaxNum
    /\ issued = <<>>
    /\ DemoInit
    /\ BenchInit

Next ==
    \/ \E d \in PressedKeys : send_move_transaction(d)
    \/ \E c \in BOOLEAN : update_scan(c)
    \/ \E c \in BOOLEAN : update_apply(c)
    \/ reset
    \/ \E r \in 1..Len(reset_tasks) : reset_clear(r)
    \/ \E r \in 1..Len(reset_tasks) : reset_zero(r)
    \/ \E d \in PressedKeys : static_begin(d)
    \/ \E t \in TaskIds : static_end(t)
    \/ \E t \in TaskIds : async_send_ok(t)
    \/ \E t \in TaskIds : async_send_err(t)
    \/ \E t \in TaskIds : rise_sign_err(t)
    \/ \E t \in TaskIds : rise_send_err(t)
    \/ \E t \in TaskIds, s \in ReceiptStatuses : rise_receipt(t, s)
    \/ \E t \in TaskIds : \E k \in NoReceiptRuns(t) : monitor_no_receipt(t, k)
    \/ \E t \in TaskIds, s \in ReceiptStatuses : monitor_receipt(t, s)
    \/ \E t \in TaskIds : monitor_error(t)
    \/ \E t \in TaskIds : monitor_timeout(t)
    \/ \E t \in TaskIds : release_slot(t)
    \/ time_passes
    \/ bench_iteration
    \/ bench_send_start
    \/ bench_send_ok
    \/ bench_send_err
    \/ bench_poll_none
    \/ bench_wake
    \/ bench_poll_err
    \/ \E s \in ReceiptStatuses : bench_poll_receipt(s)
    \/ bench_sign_ok
    \/ bench_sign_err
    \/ \E s \in ReceiptStatuses : bench_sync_receipt(s)
    \/ bench_sync_err
    \/ bench_record
    \/ bench_summary

Spec == Init /\ [][Next]_vars

\* tokio runs every task that is ready, and main runs to its next await:
\* each monitor, each pending slot release, the reset task and the
\* benchmark's main take their next step if it stays possible.  Nothing is
\* assumed about what the node answers.
MonitorStep(t) ==
    \/ \E k \in NoReceiptRuns(t) : monitor_no_receipt(t, k)
    \/ \E s \in ReceiptStatuses : monitor_receipt(t, s)
    \/ monitor_error(t)
    \/ monitor_timeout(t)

BenchStep ==
    \/ bench_iteration
    \/ bench_send_start
    \/ bench_send_ok
    \/ bench_send_err
    \/ bench_poll_none
    \/ bench_wake
    \/ bench_poll_err
    \/ \E s \in ReceiptStatuses : bench_poll_receipt(s)
    \/ bench_sign_ok
    \/ bench_sign_err
    \/ \E s \in ReceiptStatuses : bench_sync_receipt(s)
    \/ bench_sync_err
    \/ bench_record
    \/ bench_summary

FairSpec ==
    /\ Spec
    /\ \A t \in 1..MaxBurst :
          WF_vars(t \in TaskIds /\ MonitorStep(t))
          /\ WF_vars(t \in TaskIds /\ release_slot(t))
    /\ \A r \in 1..MaxResets :
          WF_vars(r \in 1..Len(reset_tasks) /\ (reset_clear(r) \/ reset_zero(r)))
    /\ WF_vars(BenchStep)

\* the game loop of main calls game.update() whenever game.speed
\* milliseconds have passed (snake.rs main): ticks keep being made
TickSpec ==
    /\ FairSpec
    /\ WF_vars(\E c \in BOOLEAN : update_scan(c))
    /\ WF_vars(\E c \in BOOLEAN : update_apply(c))

----------------------------------------------------------------------------
(* The demo late in a session: LedgerSpec starts after `played` moves were  *)
(* submitted one after the other and settled, so that the ledger is full.   *)

\* how the k-th earlier move ended: a Failed receipt, a success receipt
\* (applied by a tick), or, with the Polled strategy, a get-receipt error
PlayedOutcome(k) ==
    CASE k % 3 = 0 -> "failed"
      [] k % 3 = 1 -> "confirmed"
      [] OTHER -> IF method = "Async" THEN "receipt_error" ELSE "failed"

\* the submission record of the k-th earlier move, once it is over
PlayedTask(k) ==
    [pc |-> "done",
     current_nonce |-> starting_nonce + k - 1,
     direction |-> "Up",
     attempts |-> IF method = "Async" THEN 1 ELSE 0,
     outcome |-> PlayedOutcome(k),
     incs |-> 1,
     decs |-> 1,
     applied |-> PlayedOutcome(k) = "confirmed",
     missed |-> FALSE,
     submits |-> 1,
     receipt |-> CASE PlayedOutcome(k) = "confirmed" -> 1
                   [] PlayedOutcome(k) = "failed" -> 0
                   [] OTHER -> NoReceipt]

\* the ledger entry the k-th earlier move left
PlayedEntry(k) ==
    [nonce |-> starting_nonce + k - 1,
     status |-> CASE PlayedOutcome(k) = "confirmed" -> "Confirmed"
                  [] PlayedOutcome(k) = "failed" -> "Failed"
                  [] OTHER -> "Pending",
     direction |-> "Up",
     applied |-> PlayedOutcome(k) = "confirmed"]

RECURSIVE PushAll(_, _)
PushAll(txs, es) ==
    IF es = <<>> THEN txs ELSE PushAll(Push(txs, Head(es)), Tail(es))

RECURSIVE SelectConfirmed(_)
SelectConfirmed(k) ==
    IF k = 0 THEN <<>>
    ELSE IF PlayedOutcome(k) = "confirmed"
         THEN Append(SelectConfirmed(k - 1), starting_nonce + k - 1)
         ELSE SelectConfirmed(k - 1)

LedgerInit ==
    /\ program = "demo"
    /\ method \in {"Async", "Rise"}
    /\ rpc_responsive = TRUE
    /\ starting_nonce \in StartNonces
    /\ played \in {MaxPlayed - 1, MaxPlayed}
    /\ default_gas_price \in SessionBaselines
    /\ gas_price = GasPrice(program, default_gas_price)
    /\ max_priority_fee_per_gas =
          IF FeeMarket(method) THEN MaxPriorityFeePerGas ELSE NoFee
    /\ max_fee_per_gas =
          IF FeeMarket(method) THEN MaxFeePerGas(gas_price) ELSE NoFee
    /\ num_transactions = 0
    /\ BenchInit
    /\ nonce = starting_nonce + played
    /\ nonce_holder = NoTask
    /\ pending_moves_count = 0
    /\ transactions = PushAll(<<>>, [k \in 1..played |-> PlayedEntry(k)])
    /\ txs_locked = FALSE
    /\ snake_direction = IF SelectConfirmed(played) = <<>> THEN "Right" ELSE "Up"
    /\ game_over = FALSE
    /\ moves = 0
    /\ main_pc = "loop"
    /\ direction_to_apply = "None"
    /\ nonce_to_mark = -1
    /\ queued = EmptyBag
    /\ tasks = [k \in 1..played |-> PlayedTask(k)]
    /\ reset_tasks = <<>>
    /\ presses = played
    /\ resets = 0
    /\ issued = [k \in 1..played |-> starting_nonce + k - 1]
    /\ inserted = [k \in 1..played |-> starting_nonce + k - 1]
    /\ applied_order = SelectConfirmed(played)

DemoNext ==
    \/ \E d \in PressedKeys : send_move_transaction(d)
    \/ \E c \in BOOLEAN : update_scan(c)
    \/ \E c \in BOOLEAN : update_apply(c)
    \/ reset
    \/ \E r \in 1..Len(reset_tasks) : reset_clear(r)
    \/ \E r \in 1..Len(reset_tasks) : reset_zero(r)
    \/ \E d \in PressedKeys : static_begin(d)
    \/ \E t \in TaskIds : static_end(t)
    \/ \E t \in TaskIds : async_send_ok(t)
    \/ \E t \in TaskIds : async_send_err(t)
    \/ \E t \in TaskIds : rise_sign_err(t)
    \/ \E t \in TaskIds : rise_send_err(t)
    \/ \E t \in TaskIds, s \in ReceiptStatuses : rise_receipt(t, s)
    \/ \E t \in TaskIds : \E k \in NoReceiptRuns(t) : monitor_no_receipt(t, k)
    \/ \E t \in TaskIds, s \in ReceiptStatuses : monitor_receipt(t, s)
    \/ \E t \in TaskIds : monitor_error(t)
    \/ \E t \in TaskIds : monitor_timeout(t)
    \/ \E t \in TaskIds : release_slot(t)

LedgerSpec == LedgerInit /\ [][DemoNext]_vars

----------------------------------------------------------------------------
(* The demo's tasks under tokio's scheduling of lock requests *)

LockInit == Init /\ program = "demo"

\* tokio's Mutex hands the nonce guard to waiting tasks in turn, and a task
\* that is ready to run runs: a queued submission takes the nonce mutex if
\* it stays free and its holder reaches the end of
\* send_move_transaction_static; the reset task, a monitor whose polls ran
\* out and a pending slot release take the std mutexes they ask for.
\* Nothing is assumed about the node or the player.
LockSpec ==
    /\ LockInit
    /\ [][DemoNext]_vars
    /\ WF_vars(\E d \in PressedKeys : static_begin(d))
    /\ WF_vars(\E t \in TaskIds : static_end(t))
    /\ WF_vars(\E r \in 1..Len(reset_tasks) : reset_clear(r) \/ reset_zero(r))
    /\ WF_vars(\E t \in TaskIds : monitor_timeout(t))
    /\ WF_vars(\E t \in TaskIds : release_slot(t))

----------------------------------------------------------------------------
(* The fee policy: FeeSpec runs the startup of either program for every     *)
(* baseline gas price, then builds the fee fields of an EIP-1559 request.   *)

FeeInit ==
    /\ program \in {"demo", "bench"}
    /\ method \in IF program = "demo" THEN {"Async", "Rise"}
                  ELSE {"Async", "Rise", "Mega"}
    /\ rpc_responsive = TRUE
    /\ starting_nonce \in StartNonces
    /\ played = 0
    /\ default_gas_price \in Baselines
    /\ gas_price = NoFee
    /\ max_fee_per_gas = NoFee
    /\ max_priority_fee_per_gas = NoFee
    /\ num_transactions = 0
    /\ issued = <<>>
    /\ DemoInit
    /\ BenchInit

\* main.rs:183-190, snake.rs:860-865
startup_gas_price ==
    /\ gas_price = NoFee
    /\ gas_price' = GasPrice(program, default_gas_price)
    /\ UNCHANGED <<program, method, rpc_responsive, starting_nonce, played,
                   default_gas_price, max_fee_per_gas,
                   max_priority_fee_per_gas, demo_vars, bench_vars, issued>>

\* main.rs:242-262, snake.rs:362-369: the fee fields of the request
build_fee_market_request ==
    /\ gas_price # NoFee
    /\ FeeMarket(method)
    /\ max_fee_per_gas = NoFee
    /\ max_priority_fee_per_gas' = MaxPriorityFeePerGas
    /\ max_fee_per_gas' = MaxFeePerGas(gas_price)
    /\ UNCHANGED <<program, method, rpc_responsive, starting_nonce, played,
                   default_gas_price, gas_price, demo_vars, bench_vars,
                   issued>>

FeeNext ==
    \/ startup_gas_price
    \/ build_fee_market_request

FeeSpec == FeeInit /\ [][FeeNext]_vars

----------------------------------------------------------------------------
(* Properties *)

\* position of the first occurrence of x in seq, 0 if there is none
Pos(seq, x) ==
    IF \E i \in 1..Len(seq) : seq[i] = x
    THEN CHOOSE i \in 1..Len(seq) :
            seq[i] = x /\ \A j \in 1..(i - 1) : seq[j] # x
    ELSE 0

\* calls of send_move_transaction that spawned no task
Dropped == presses - Len(tasks) - BagCardinality(queued)

\* position of submission t, "unspawned" before it took the nonce mutex
TaskPc(t) == IF t \in TaskIds THEN tasks[t].pc ELSE "unspawned"

\* the ledger entry of submission t, 0 if it is not in the ledger
EntryOf(t) == FirstWithNonce(transactions, tasks[t].current_nonce)

\* C1: the nonces handed out so far, in the demo under any interleaving of the
\* submission tasks and in the benchmark loop, are exactly starting_nonce,
\* starting_nonce + 1, ..., starting_nonce + N - 1: no duplicate, no gap.
C1_NoncesContiguous ==
    \A k \in 1..Len(issued) : issued[k] = starting_nonce + k - 1

C1_Witness ==
    /\ program = "demo"
    /\ Len(issued) >= 2
    /\ BagCardinality(queued) >= 1
    /\ nonce_holder # NoTask

\* C2: the in-flight counter pending_moves_count is within [0, 4] in every
\* reachable state of the demo.
C2_CounterWithinCap ==
    pending_moves_count \in 0..Cap

\* C3: a call of send_move_transaction made while the counter is at the cap
\* (4 or more) changes nothing but the count of calls: the counter, the
\* nonce, the spawned tasks and the ledger stay as they are.
C3_DropAtCap ==
    [][(presses' = presses + 1 /\ pending_moves_count >= Cap)
        => UNCHANGED <<pending_moves_count, nonce, nonce_holder, issued,
                       queued, tasks, transactions, inserted>>]_vars

C3_Witness ==
    /\ Dropped >= 1
    /\ pending_moves_count = Cap
    /\ Len(tasks) = Cap
    /\ queued = EmptyBag

\* C4: effects are applied in ledger insertion order: of two applied entries
\* the one inserted first was applied first.
C4_AppliedInInsertionOrder ==
    \A i, j \in 1..Len(applied_order) :
        i < j => Pos(inserted, applied_order[i]) < Pos(inserted, applied_order[j])

\* a submission has reached a terminal path: an error, a Failed receipt, a
\* timeout (the task is over), or its Confirmed entry was applied
Terminal(t) ==
    \/ /\ tasks[t].pc = "done"
       /\ tasks[t].outcome \in {"sign_error", "send_error", "receipt_error",
                                "failed", "timeout"}
    \/ tasks[t].applied

\* C5: every increment of the counter made for a submission is matched by
\* exactly one decrement made for it: none is decremented twice, and none
\* that reached a terminal path keeps its slot.
C5_OneDecrementPerIncrement ==
    \A t \in TaskIds :
        /\ tasks[t].decs <= tasks[t].incs
        /\ Terminal(t) => tasks[t].decs = tasks[t].incs

\* C6: a submission of the demo that failed with a signing or a transport
\* error has had the counter decremented for it.
C6_SubmitErrorReleasesSlot ==
    \A t \in TaskIds :
        (tasks[t].pc = "done" /\ tasks[t].outcome \in {"sign_error", "send_error"})
            => tasks[t].decs = 1

\* C7: in the benchmark an error of one operation aborts that operation
\* only: when main is over, every operation of the batch was submitted and
\* the summary was produced.
C7_BenchErrorAbortsOneOperation ==
    (program = "bench" /\ b_pc \in {"done", "aborted"})
        => (Len(issued) = num_transactions /\ batch_elapsed >= 0)

\* C8: after a get-receipt call of a monitor returned an error, the monitor
\* polls no more and the operation's ledger entry, if present, is Failed.
C8_ReceiptErrorSettlesFailed ==
    \A t \in TaskIds :
        tasks[t].outcome = "receipt_error"
            => /\ tasks[t].pc = "done"
               /\ EntryOf(t) # 0 => transactions[EntryOf(t)].status = "Failed"

\* the outcome of submission t, "none" while it has none
TaskOutcome(t) == IF t \in TaskIds THEN tasks[t].outcome ELSE "none"

\* C9: a monitor makes at most 300 get-receipt calls; one that got no
\* receipt in 300 calls sets the entry (if present) to Failed and runs the
\* decrement of the counter once: that step lowers the counter by one,
\* flooring at zero, and by exactly one when the game was never reset.
C9_TimeoutSettlesOnce ==
    /\ [](\A t \in TaskIds :
            /\ tasks[t].attempts <= MaxAttempts
            /\ tasks[t].outcome = "timeout"
                => /\ tasks[t].attempts = MaxAttempts
                   /\ EntryOf(t) # 0
                        => transactions[EntryOf(t)].status = "Failed"
                   /\ tasks[t].decs = IF tasks[t].pc = "done" THEN 1 ELSE 0)
    /\ [][\A t \in 1..MaxBurst :
            (TaskOutcome(t) = "timeout" /\ TaskPc(t) = "releasing"
                /\ TaskPc(t)' = "done")
            => /\ pending_moves_count' =
                    IF pending_moves_count > 0 THEN pending_moves_count - 1
                    ELSE 0
               /\ resets = 0 => pending_moves_count' = pending_moves_count - 1
               /\ transactions' = transactions]_vars

C9_Witness ==
    \E t \in TaskIds :
        /\ tasks[t].outcome = "timeout"
        /\ tasks[t].pc = "done"
        /\ EntryOf(t) # 0
        /\ transactions[EntryOf(t)].status = "Failed"

\* C10: an operation submitted with the Polled strategy eventually reaches
\* a terminal outcome, in the demo's monitor and in the benchmark's
\* send_and_confirm_transaction, whatever the node answers.
C10_PolledAlwaysSettles ==
    /\ \A t \in 1..MaxBurst :
          (TaskPc(t) = "polling") ~> (TaskPc(t) \in {"releasing", "done"})
    /\ (b_pc = "polling") ~> (b_pc \in {"loop", "done", "aborted"})

\* the nonces of the entries of a ledger, and the entry with a given nonce
NoncesOf(txs) == {txs[i].nonce : i \in 1..Len(txs)}
EntryWith(txs, n) == txs[FirstWithNonce(txs, n)]

\* C11: the status of a ledger entry changes only from Pending to Confirmed
\* or from Pending to Failed: no step changes the status of an entry that is
\* Confirmed or Failed, whatever monitor, submission task or tick takes it.
C11_StatusSettlesOnce ==
    [][\A n \in NoncesOf(transactions) \cap NoncesOf(transactions') :
          EntryWith(transactions', n).status # EntryWith(transactions, n).status
            => /\ EntryWith(transactions, n).status = "Pending"
               /\ EntryWith(transactions', n).status \in {"Confirmed", "Failed"}]_vars

C11_Witness ==
    /\ method = "Async"
    /\ \A t \in TaskIds : tasks[t].pc = "done"
    /\ \E i, j \in 1..Len(transactions) :
          /\ transactions[i].status = "Confirmed"
          /\ transactions[j].status = "Failed"
          /\ tasks[TaskOfNonce(transactions[j].nonce)].outcome = "timeout"

\* C12: the applied flag of an entry changes only from false to true, only
\* in the step of Game::update that found the entry Confirmed and tagged
\* with a direction (no submission or monitor task moves in that step); a new
\* entry starts unapplied, and no entry is applied twice.
C12_AppliedOnlyByUpdate ==
    /\ [](\A i, j \in 1..Len(applied_order) :
            i # j => applied_order[i] # applied_order[j])
    /\ [][/\ \A n \in NoncesOf(transactions) \cap NoncesOf(transactions') :
               EntryWith(transactions', n).applied
                   # EntryWith(transactions, n).applied
                 => /\ ~EntryWith(transactions, n).applied
                    /\ EntryWith(transactions, n).status = "Confirmed"
                    /\ EntryWith(transactions, n).direction \in Directions
                    /\ main_pc = "loop" /\ main_pc' = "apply"
                    /\ direction_to_apply' = EntryWith(transactions, n).direction
                    /\ UNCHANGED <<tasks, queued, reset_tasks>>
          /\ \A n \in NoncesOf(transactions') \ NoncesOf(transactions) :
               ~EntryWith(transactions', n).applied]_vars

C12_Witness ==
    /\ main_pc = "apply"
    /\ \E i, j \in 1..Len(transactions) :
          /\ transactions[i].applied
          /\ transactions[i].nonce = nonce_to_mark
          /\ transactions[j].status = "Pending"
          /\ ~transactions[j].applied

\* the nonces of the ledger's entries, in ledger order
LedgerNonces == [i \in 1..Len(transactions) |-> transactions[i].nonce]

\* the k most recently inserted nonces, in insertion order
LastInserted(k) == SubSeq(inserted, Len(inserted) - k + 1, Len(inserted))

\* C13: the ledger never holds more than 10 entries, and its entries are the
\* most recently inserted ones in insertion order, whatever their status or
\* applied flag; as long as the game was not reset they are exactly the
\* min(10, number of insertions) most recent ones.
C13_LedgerKeepsLastTen ==
    /\ Len(transactions) <= MaxTxs
    /\ LedgerNonces = LastInserted(Len(transactions))
    /\ resets = 0 =>
          Len(transactions) = IF Len(inserted) < MaxTxs THEN Len(inserted)
                              ELSE MaxTxs

C13_Witness ==
    /\ resets = 0
    /\ Len(inserted) = MaxTxs + 2
    /\ Len(transactions) = MaxTxs
    /\ transactions[1].nonce = starting_nonce + 2
    /\ transactions[MaxTxs].nonce = starting_nonce + MaxTxs + 1

\* C14: the effect of each confirmed operation is applied exactly once:
\* no nonce is applied twice, and, ticks being made, every submission whose
\* receipt reported success is eventually applied by Game::update.
C14_ConfirmedAppliedExactlyOnce ==
    /\ [](\A i, j \in 1..Len(applied_order) :
            i < j => applied_order[i] # applied_order[j])
    /\ \A t \in 1..MaxBurst :
          (TaskOutcome(t) = "confirmed") ~> (t \in TaskIds /\ tasks[t].applied)

\* C15: an entry leaves the ledger only by FIFO eviction: a step that removes
\* an entry is an insertion made into a ledger of 10 entries, and it removes
\* the oldest entry and no other.
C15_RemovedOnlyByEviction ==
    [][NoncesOf(transactions) \ NoncesOf(transactions') # {}
        => /\ Len(transactions) = MaxTxs
           /\ Len(inserted') = Len(inserted) + 1
           /\ NoncesOf(transactions) \ NoncesOf(transactions')
                = {transactions[1].nonce}]_vars

\* C16: a status update (receipt or timeout) made by a monitor whose nonce is
\* no longer in the ledger, and a mark-applied step whose nonce is not in the
\* ledger, leave the ledger as it is, and the task goes on as it does when
\* the entry is there: no other task is touched and none ends with an error.
C16_MissingTargetIsNoOp ==
    [][/\ \A t \in 1..MaxBurst :
            (/\ TaskPc(t) = "polling"
             /\ TaskOutcome(t)' \in {"confirmed", "failed", "timeout"}
             /\ EntryOf(t) = 0)
            => /\ transactions' = transactions
               /\ TaskPc(t)' = IF TaskOutcome(t)' = "confirmed" THEN "done"
                               ELSE "releasing"
               /\ \A u \in TaskIds \ {t} : tasks'[u] = tasks[u]
       /\ (main_pc = "loop" /\ main_pc' = "apply"
             /\ nonce_to_mark' \notin NoncesOf(transactions))
            => transactions' = transactions]_vars

C16_Witness ==
    \E t, u \in TaskIds :
        /\ tasks[t].missed
        /\ tasks[t].outcome \in {"confirmed", "timeout"}
        /\ tasks[u].current_nonce \in NoncesOf(transactions)
        /\ \A r \in 1..Len(reset_tasks) : reset_tasks[r] = "done"

\* C17 (as amended): the fee computed at startup is 1 gwei when the
\* baseline is 0, and baseline times the multiplier otherwise (3 in the
\* benchmark, 2 in the demo).
C17_FeePolicy ==
    gas_price # NoFee =>
        gas_price = IF default_gas_price = 0 THEN 1000000000
                    ELSE IF program = "bench" THEN 3 * default_gas_price
                    ELSE 2 * default_gas_price

C17_Witness ==
    /\ program = "demo"
    /\ default_gas_price = 600000000
    /\ gas_price = 1200000000

\* C17 (as stated): the fee computed at startup equals 1 gwei if and only if
\* the baseline is 0, and otherwise it is baseline times the multiplier.
C17_FloorIffZeroBaseline ==
    gas_price # NoFee =>
        /\ (gas_price = 1000000000) <=> (default_gas_price = 0)
        /\ default_gas_price # 0 =>
              gas_price = IF program = "bench" THEN 3 * default_gas_price
                          ELSE 2 * default_gas_price

\* the larger of two fees
MaxOf(a, b) == IF a >= b THEN a ELSE b

\* C18: the max-fee of an EIP-1559 request is max(g, 2 * priorityFeeFloor),
\* g being the fee computed at startup and priorityFeeFloor 1 gwei.
C18_MaxFeeIsMaxOfFeeAndTwiceFloor ==
    max_fee_per_gas # NoFee =>
        max_fee_per_gas = MaxOf(gas_price, 2 * 1000000000)

\* C19: for every baseline, zero or positive, and in both programs, the
\* max-fee of an EIP-1559 request is at least its priority fee.
C19_MaxFeeCoversPriorityFee ==
    max_fee_per_gas # NoFee =>
        /\ max_priority_fee_per_gas = 1000000000
        /\ max_fee_per_gas >= max_priority_fee_per_gas

C19_Witness ==
    /\ program = "bench"
    /\ default_gas_price = 1
    /\ gas_price = 3
    /\ max_fee_per_gas = 2000000000

\* the millisecond values of one column of the results
Column(f) == [i \in 1..Len(results) |-> results[i][f]]

\* st is a summary line of the values xs: min <= avg <= max, min and max
\* bound every value, and avg is the truncated quotient of sum by count
SummaryLineOf(st, xs) ==
    /\ st.min <= st.avg
    /\ st.avg <= st.max
    /\ \A i \in 1..Len(xs) : st.min <= xs[i] /\ xs[i] <= st.max
    /\ st.avg * Len(xs) <= SeqSum(xs)
    /\ SeqSum(xs) < (st.avg + 1) * Len(xs)

\* C20: when the benchmark ends with a non-empty set of results, the printed
\* summary has min <= avg <= max for the send, the confirm and the total
\* time, avg being the sum of the millisecond values divided by their count
\* with integer truncation.
C20_SummaryMinAvgMax ==
    (program = "bench" /\ b_pc = "done" /\ results # <<>>)
        => /\ summary.count = Len(results)
           /\ SummaryLineOf(summary.send, Column("send_time"))
           /\ SummaryLineOf(summary.confirm, Column("confirm_time"))
           /\ SummaryLineOf(summary.total, Column("total_time"))

C20_Witness ==
    /\ program = "bench"
    /\ b_pc = "done"
    /\ Len(results) = 2
    /\ summary.total.min = 0
    /\ summary.total.avg = 1
    /\ summary.total.max = 3

\* the summary line that reports zeros
ZeroLine == [min |-> 0, max |-> 0, avg |-> 0]

\* C21: when the benchmark ends and no operation produced a result, the
\* latency summary is produced and reports zeros for min, max and avg of the
\* send, the confirm and the total time.
C21_EmptySummaryReportsZeros ==
    (program = "bench" /\ b_pc = "done" /\ results = <<>>)
        => /\ summary # "none"
           /\ summary.send = ZeroLine
           /\ summary.confirm = ZeroLine
           /\ summary.total = ZeroLine

\* C22: when the benchmark ends, every operation of the batch appears in the
\* results the final summary is made of, also one that returned an error or
\* whose receipt has status 0, and each reported operation carries its
\* outcome, so that a failed one can be told from a confirmed one.
C22_NoFailureDroppedFromReport ==
    (program = "bench" /\ b_pc = "done")
        => /\ Len(results) = Len(issued)
           /\ \A i \in 1..Len(results) : "status" \in DOMAIN results[i]

\* C23: every result of the benchmark recorded with a synchronous strategy
\* (Rise or Mega), whatever the status of its receipt, has confirm time 0 and
\* a total time equal to its send time.
C23_SyncTotalEqualsSend ==
    (program = "bench" /\ FeeMarket(method))
        => \A i \in 1..Len(results) :
              /\ results[i].confirm_time = 0
              /\ results[i].total_time = results[i].send_time

RECURSIVE SubmitsUpTo(_, _)
\* submit RPC calls made with nonce n by the first k submissions of the demo
SubmitsUpTo(n, k) ==
    IF k = 0 THEN 0
    ELSE SubmitsUpTo(n, k - 1)
         + (IF tasks[k].current_nonce = n THEN tasks[k].submits ELSE 0)

\* C24: nothing is retried or resubmitted.  In the demo every issued nonce
\* was passed to at most one submit RPC call, also when the call failed or
\* the monitor timed out; in the benchmark a submit call is entered only
\* from the start of an iteration, and every iteration issues a new nonce.
C24_NoResubmission ==
    /\ [](program = "demo" =>
            \A k \in 1..Len(issued) : SubmitsUpTo(issued[k], Len(tasks)) <= 1)
    /\ [][/\ (b_pc' \in {"sending", "signing"} /\ b_pc' # b_pc)
              => b_pc = "started"
          /\ (b_pc' = "sync_send" /\ b_pc' # b_pc) => b_pc = "signing"
          /\ (b_pc' = "started" /\ b_pc' # b_pc)
              => /\ Len(issued') = Len(issued) + 1
                 /\ \A k \in 1..Len(issued) :
                       issued[k] # issued'[Len(issued')]]_vars

C24_Witness ==
    \E t, u \in TaskIds :
        /\ tasks[t].outcome = "timeout"
        /\ tasks[t].pc = "done"
        /\ tasks[t].submits = 1
        /\ tasks[u].outcome = "send_error"
        /\ tasks[u].submits = 1

\* C25: in the Polled strategy of the demo the entry is recorded, Pending,
\* before the first get-receipt call: a monitor exists only for a nonce that
\* was inserted, an entry whose monitor has made no call yet is Pending, and
\* the submitting task has released the nonce mutex by then.
C25_PendingRecordedBeforePolling ==
    (program = "demo" /\ method = "Async")
        => \A t \in TaskIds :
              /\ (tasks[t].pc = "polling" \/ tasks[t].attempts > 0)
                    => /\ Pos(inserted, tasks[t].current_nonce) # 0
                       /\ nonce_holder # t
              /\ (tasks[t].pc = "polling" /\ tasks[t].attempts = 0
                    /\ EntryOf(t) # 0)
                    => transactions[EntryOf(t)].status = "Pending"
              /\ tasks[t].pc \in {"holding", "sending"}
                    => /\ tasks[t].attempts = 0
                       /\ Pos(inserted, tasks[t].current_nonce) = 0

C25_Witness ==
    /\ method = "Async"
    /\ \E t, u \in TaskIds :
          /\ tasks[t].pc = "polling"
          /\ tasks[t].attempts = 0
          /\ EntryOf(t) # 0
          /\ transactions[EntryOf(t)].status = "Pending"
          /\ tasks[u].pc = "holding"

\* C26: in the Rise strategy of the demo a submission whose signing or
\* synchronous submit call failed has no ledger entry, ever, and ends with
\* its error as outcome; every entry that is recorded is Confirmed or Failed
\* from its insertion on, never Pending.
C26_RiseEntriesInsertedSettled ==
    (program = "demo" /\ method = "Rise")
        => /\ \A t \in TaskIds :
                tasks[t].outcome \in {"sign_error", "send_error"}
                    => /\ Pos(inserted, tasks[t].current_nonce) = 0
                       /\ EntryOf(t) = 0
                       /\ tasks[t].pc = "done"
           /\ \A i \in 1..Len(transactions) :
                transactions[i].status \in {"Confirmed", "Failed"}
           /\ \A t \in TaskIds :
                Pos(inserted, tasks[t].current_nonce) # 0
                    => tasks[t].outcome \in {"confirmed", "failed"}

C26_Witness ==
    /\ method = "Rise"
    /\ \E t, u \in TaskIds :
          /\ tasks[t].outcome = "send_error"
          /\ EntryOf(u) # 0
          /\ transactions[EntryOf(u)].status = "Failed"

\* C27: the nonce mutex is held only between the read and the increment of
\* the nonce, never across a network call: its holder is a task inside
\* send_move_transaction_static that has made no RPC call, every task inside
\* that function holds it, and no task that signs, submits or polls does.
C27_NonceLockNotHeldAcrossNetwork ==
    /\ nonce_holder # NoTask
          => /\ nonce_holder \in TaskIds
             /\ tasks[nonce_holder].pc = "holding"
             /\ tasks[nonce_holder].current_nonce = nonce
    /\ \A t \in TaskIds :
          /\ tasks[t].pc = "holding"
                => /\ nonce_holder = t
                   /\ tasks[t].submits = 0
                   /\ tasks[t].attempts = 0
          /\ tasks[t].pc \in {"sending", "polling", "releasing"}
                => nonce_holder # t

C27_Witness ==
    \E t, u \in TaskIds :
        /\ tasks[t].pc = "polling"
        /\ tasks[t].attempts >= 1
        /\ nonce_holder = u
        /\ tasks[u].pc = "holding"

\* the benchmark's main is inside an operation (submitted, not completed)
BenchInOperation ==
    b_pc \in {"started", "sending", "polling", "sleeping", "signing",
              "sync_send", "record"}

\* C28: the benchmark serializes its submissions: when operation i + 1 is
\* issued the i operations before it have completed (a result or an error),
\* at most one operation is in progress (the last one issued, which is also
\* the one whose error ended main), and the batch elapsed time is taken only
\* when all operations of the batch have completed.
C28_BenchSerializes ==
    program = "bench"
        => /\ Len(issued) = b_i + (IF BenchInOperation \/ b_pc = "aborted"
                                   THEN 1 ELSE 0)
           /\ Len(results) <= b_i
           /\ b_i <= num_transactions
           /\ batch_elapsed >= 0
                => /\ b_pc = "done"
                   /\ b_i = num_transactions
                   /\ Len(issued) = num_transactions
                   /\ batch_elapsed = clock

C28_Witness ==
    /\ program = "bench"
    /\ b_pc = "polling"
    /\ b_i = 1
    /\ Len(results) = 1
    /\ Len(issued) = 2
    /\ clock >= 1

\* C29: a receipt is classified Confirmed iff its status is present and
\* equals 1, and Failed otherwise (status 0 or absent), in the monitor and in
\* the Rise path alike: the outcome of a submission that got a receipt, and
\* the status written to its entry, are Confirmed exactly for status 1.
C29_ConfirmedIffStatusOne ==
    \A t \in TaskIds :
        tasks[t].receipt # NoReceipt
            => /\ tasks[t].receipt \in {0, 1, NoStatus}
               /\ tasks[t].outcome = "confirmed" <=> tasks[t].receipt = 1
               /\ tasks[t].outcome = "failed" <=> tasks[t].receipt # 1
               /\ (EntryOf(t) # 0 /\ ~tasks[t].missed)
                    => (transactions[EntryOf(t)].status = "Confirmed"
                           <=> tasks[t].receipt = 1)
               /\ (EntryOf(t) # 0 /\ ~tasks[t].missed)
                    => (transactions[EntryOf(t)].status = "Failed"
                           <=> tasks[t].receipt # 1)

C29_Witness ==
    \E t, u \in TaskIds :
        /\ tasks[t].receipt = NoStatus
        /\ EntryOf(t) # 0
        /\ transactions[EntryOf(t)].status = "Failed"
        /\ tasks[u].receipt = 1
        /\ EntryOf(u) # 0
        /\ transactions[EntryOf(u)].status = "Confirmed"

\* entry i of the ledger is Confirmed, tagged with a direction, not applied
Applicable(i) ==
    /\ transactions[i].status = "Confirmed"
    /\ transactions[i].direction \in Directions
    /\ ~transactions[i].applied

\* C30: a tick of Game::update that applies a move marks exactly one entry
\* applied, the first one in ledger order that is Confirmed, tagged and not
\* yet applied, and takes its direction; it then lowers the in-flight
\* counter by one, flooring at zero, and leaves the ledger alone; no step
\* outside the tick marks an entry applied.
C30_TickAppliesFirstConfirmed ==
    [][/\ (main_pc = "loop" /\ main_pc' = "apply")
            => \E i \in 1..Len(transactions) :
                  /\ Applicable(i)
                  /\ \A j \in 1..(i - 1) : ~Applicable(j)
                  /\ transactions' = [transactions EXCEPT ![i].applied = TRUE]
                  /\ nonce_to_mark' = transactions[i].nonce
                  /\ direction_to_apply' = transactions[i].direction
                  /\ pending_moves_count' = pending_moves_count
       /\ (main_pc = "apply" /\ main_pc' = "loop")
            => /\ pending_moves_count' =
                    IF pending_moves_count > 0 THEN pending_moves_count - 1
                    ELSE 0
               /\ transactions' = transactions
       /\ main_pc' = main_pc
            => \A n \in NoncesOf(transactions) \cap NoncesOf(transactions') :
                  EntryWith(transactions', n).applied
                      = EntryWith(transactions, n).applied]_vars

C30_Witness ==
    /\ main_pc = "apply"
    /\ Len(transactions) = 2
    /\ transactions[2].nonce = nonce_to_mark
    /\ transactions[2].applied
    /\ transactions[1].status \in {"Pending", "Failed"}
    /\ ~transactions[1].applied

\* C31: a tick of Game::update that finds no Confirmed, tagged, unapplied
\* entry (the snake advances or the game ends while the main loop stays
\* outside the apply section) leaves the ledger and the in-flight counter
\* unchanged and still runs move_forward; while game_over is true no step
\* of Game::update happens: nothing is selected or marked applied, the
\* snake does not move and the game stays over until a reset.
C31_IdleTickLeavesLedgerAndCounter ==
    [][/\ (/\ main_pc = "loop" /\ main_pc' = "loop"
           /\ resets' = resets
           /\ (moves' # moves \/ game_over' # game_over))
            => /\ ~game_over
               /\ \A i \in 1..Len(transactions) : ~Applicable(i)
               /\ transactions' = transactions
               /\ pending_moves_count' = pending_moves_count
               /\ snake_direction' = snake_direction
               /\ (moves' # moves) # game_over'
       /\ (game_over /\ resets' = resets)
            => /\ main_pc' = "loop" /\ main_pc = "loop"
               /\ moves' = moves
               /\ game_over'
               /\ applied_order' = applied_order
               /\ direction_to_apply' = direction_to_apply
               /\ nonce_to_mark' = nonce_to_mark
               /\ \A n \in NoncesOf(transactions) \cap NoncesOf(transactions') :
                     EntryWith(transactions', n).applied
                         = EntryWith(transactions, n).applied]_vars

\* a tick found nothing to apply although a move is in flight, and the
\* snake advanced
C31_Witness ==
    /\ moves = 1
    /\ resets = 0
    /\ applied_order = <<>>
    /\ pending_moves_count > 0
    /\ \E i \in 1..Len(transactions) : transactions[i].status = "Pending"

\* a task holds the nonce mutex / the ledger mutex
NonceHeld == nonce_holder # NoTask
LedgerHeld == txs_locked

\* submission t stands before a lock it needs: it holds the nonce mutex and
\* takes the counter, its monitor ran out of polls and takes the ledger, or
\* it takes the counter to release its slot
LockWait(t) ==
    IF t \in TaskIds
    THEN \/ tasks[t].pc \in {"holding", "releasing"}
         \/ tasks[t].pc = "polling" /\ ~PollBudgetLeft(tasks[t].attempts)
    ELSE FALSE

\* reset task r has not yet cleared the ledger and zeroed the counter
ResetWait(r) ==
    IF r \in 1..Len(reset_tasks) THEN reset_tasks[r] # "done" ELSE FALSE

\* some task has asked for a lock and has not got past it
SomeoneWaits ==
    \/ queued # EmptyBag
    \/ \E t \in TaskIds : LockWait(t)
    \/ \E r \in 1..Len(reset_tasks) : ResetWait(r)

\* whoever holds the nonce mutex or the ledger mutex can take its next step
HoldersCanRun ==
    /\ NonceHeld => /\ nonce_holder \in TaskIds
                    /\ tasks[nonce_holder].pc = "holding"
                    /\ ENABLED static_end(nonce_holder)
    /\ LedgerHeld => \E r \in 1..Len(reset_tasks) :
                        /\ reset_tasks[r] = "clearing"
                        /\ ENABLED reset_zero(r)

\* C32: no reachable state is a deadlock among the tasks that take the nonce
\* mutex, the ledger mutex and the counter mutex: whoever holds the nonce
\* mutex or the ledger mutex can take its next step (it waits for no lock
\* that is held), and every task that waits for a lock gets past the wait:
\* from any state in which a submission is queued for the nonce mutex, a
\* holder of it is about to take the counter, a reset task has not yet
\* taken the ledger and the counter, a monitor whose polls ran out is to
\* settle its entry or a slot release is pending, a state is reached in
\* which none of them waits any more.
C32_NoDeadlockOnLocks ==
    /\ []HoldersCanRun
    /\ SomeoneWaits ~> ~SomeoneWaits

\* the reset task holds the ledger mutex and is about to take the counter
\* mutex while a submission holds the nonce mutex and a monitor is polling
C32_Witness ==
    /\ LedgerHeld
    /\ NonceHeld
    /\ \E t \in TaskIds : tasks[t].pc = "polling"

\* submissions that took a slot and have made no decrement for it
Holders == {t \in TaskIds : tasks[t].incs > tasks[t].decs}

\* every task spawned by Game::reset has cleared the ledger and zeroed the
\* counter, and there was one
ResetsDone ==
    /\ reset_tasks # <<>>
    /\ \A r \in 1..Len(reset_tasks) : reset_tasks[r] = "done"

\* submission t took its slot before the reset: after the reset the counter
\* counts the holders that took their slot after it, submissions take
\* their slots in the order of their records, so the holders the counter
\* does not cover are the earliest ones
PreReset(t) ==
    /\ ResetsDone
    /\ t \in Holders
    /\ Cardinality({u \in Holders : u <= t})
          <= Cardinality(Holders) - pending_moves_count

\* C33: once the task of Game::reset has cleared the ledger and zeroed the
\* counter, no step inserts the ledger entry of a submission that took its
\* slot before the reset, and no decrement made for such a submission
\* lowers the counter (every slot counted then was taken after the reset).
C33_PreResetLeavesNewStateAlone ==
    [][\A t \in TaskIds :
          PreReset(t) =>
             /\ ~(/\ Len(inserted') = Len(inserted) + 1
                  /\ inserted'[Len(inserted')] = tasks[t].current_nonce)
             /\ (tasks'[t].decs > tasks[t].decs
                    => pending_moves_count' = pending_moves_count)]_vars

\* submissions that reached the end of send_move_transaction_static
Advanced == {t \in TaskIds : tasks[t].pc # "holding"}

\* C34: the nonce counter stands one past the start for every submission that
\* ran through send_move_transaction_static, whatever became of it: it is
\* above the nonce of every such submission (also one that ended in a
\* signing error, a failed send, a failed receipt or a timeout), and no two
\* submissions were handed the same nonce.
C34_NonceNeverRolledBack ==
    program = "demo" =>
        /\ nonce = starting_nonce + Cardinality(Advanced)
        /\ \A t \in Advanced : tasks[t].current_nonce < nonce
        /\ \A t, u \in TaskIds :
              t # u => tasks[t].current_nonce # tasks[u].current_nonce

\* a submission ended in a signing error or a failed send, and a later one
\* was handed the next nonce and ended as well
C34_Witness ==
    \E t, u \in TaskIds :
        /\ tasks[t].outcome \in {"sign_error", "send_error"}
        /\ tasks[u].outcome \in {"failed", "send_error", "sign_error"}
        /\ tasks[u].current_nonce = tasks[t].current_nonce + 1
        /\ tasks[t].pc = "done" /\ tasks[u].pc = "done"
        /\ nonce = starting_nonce + 2

\* C35: no two entries of the ledger have the same nonce, and every entry
\* is the one of the single submission that was handed its nonce: the
\* by-nonce lookup of a monitor finds at most the entry its own send task
\* inserted (same direction tag), and the nonce Game::update marks belongs
\* to exactly one entry while the entry is in the ledger.
C35_LedgerNoncesUnique ==
    /\ \A i, j \in 1..Len(transactions) :
          i # j => transactions[i].nonce # transactions[j].nonce
    /\ \A i \in 1..Len(transactions) :
          \E t \in TaskIds :
             /\ tasks[t].current_nonce = transactions[i].nonce
             /\ tasks[t].direction = transactions[i].direction
             /\ EntryOf(t) = i
             /\ \A u \in TaskIds : EntryOf(u) = i => u = t
    /\ main_pc = "apply" =>
          Cardinality({i \in 1..Len(transactions) :
                          transactions[i].nonce = nonce_to_mark}) <= 1

\* two entries in the ledger, one being settled by its monitor while the
\* monitor of the other is still polling
C35_Witness ==
    \E t, u \in TaskIds :
        /\ t # u
        /\ EntryOf(t) # 0 /\ EntryOf(u) # 0
        /\ tasks[t].pc = "polling"
        /\ tasks[u].outcome = "confirmed"
        /\ transactions[EntryOf(u)].status = "Confirmed"
        /\ transactions[EntryOf(t)].status = "Pending"

\* C36: the tick that applies an entry whose tag is the opposite of the
\* snake's direction leaves the direction unchanged (any other tag becomes
\* the direction), yet the entry stays marked applied and the in-flight
\* counter is lowered by one, flooring at zero; no step turns the snake to
\* the opposite of its direction (Game::reset replaces the snake by a new
\* one heading Right).
C36_OppositeTagIsSpent ==
    [][/\ (main_pc = "apply" /\ main_pc' = "loop")
            => /\ snake_direction' =
                     IF direction_to_apply = opposite(snake_direction)
                     THEN snake_direction ELSE direction_to_apply
               /\ pending_moves_count' =
                     IF pending_moves_count > 0 THEN pending_moves_count - 1
                     ELSE 0
               /\ \A i \in 1..Len(transactions) :
                     transactions[i].nonce = nonce_to_mark
                        => transactions[i].applied /\ transactions'[i].applied
       /\ resets' = resets
            => snake_direction' # opposite(snake_direction)]_vars

\* a Left move was applied while the snake headed Right: the snake still
\* heads Right, the entry is marked applied and its slot was released
C36_Witness ==
    \E t \in TaskIds :
        /\ resets = 0
        /\ snake_direction = "Right"
        /\ tasks[t].direction = "Left"
        /\ tasks[t].applied
        /\ tasks[t].decs = 1
        /\ applied_order = <<tasks[t].current_nonce>>
        /\ EntryOf(t) # 0
        /\ transactions[EntryOf(t)].applied
        /\ main_pc = "loop"

====
